---------------------------- MODULE Spec2Model ----------------------------
(***************************************************************************)
(* Model of trackemdown's query resolution pipeline:                       *)
(*   core.py  fetch_geotags(q, resolution)  and its exception classes,     *)
(*   main.py  get_geotag, the /geotag endpoint that wraps it.              *)
(*                                                                         *)
(* A Python str is a sequence of one-character strings.  A float is the    *)
(* exact decimal [neg, int, frac] with the trailing zeros of frac removed; *)
(* the numbers of the inputs have at most six non-zero digits, for which   *)
(* the conversion from decimal text to double is one to one.               *)
(***************************************************************************)
EXTENDS Integers, Sequences, FiniteSets, TLC

VARIABLES
    pc,          \* per invocation: where get_geotag / fetch_geotags stands
    q,           \* per invocation: the query argument
    resolution,  \* per invocation: the resolution argument
    locations,   \* per frame: fetch_geotags' local list of candidates
    results,     \* per frame: fetch_geotags' local list of GeoTagResult
    outcome,     \* per invocation: what fetch_geotags returned or raised
    response,    \* per invocation: what the geocoding service answered
    reply,       \* per invocation: the HTTP reply of /geotag
    trace,       \* per invocation: the steps taken so far, in order
    sent,        \* per invocation: outbound requests issued by this call
    nRequests,   \* outbound requests issued by all calls
    nAddress,    \* calls that took the address branch
    nCalls,      \* calls started
    repeated,    \* per invocation: the query equals the previous call's
    overlapped   \* per invocation: answered while another call was awaiting

vars == <<pc, q, resolution, locations, results, outcome, response, reply,
          trace, sent, nRequests, nAddress, nCalls, repeated, overlapped>>

-----------------------------------------------------------------------------
(* Characters and the str methods fetch_geotags uses.                      *)

DigitChars == {"0", "1", "2", "3", "4", "5", "6", "7", "8", "9"}

\* Python's str.isspace() characters that occur in the inputs.
SpaceChars == {" ", "\t", "\n"}

DigitVal(c) ==
    CASE c = "0" -> 0 [] c = "1" -> 1 [] c = "2" -> 2 [] c = "3" -> 3
      [] c = "4" -> 4 [] c = "5" -> 5 [] c = "6" -> 6 [] c = "7" -> 7
      [] c = "8" -> 8 [] c = "9" -> 9

\* The characters "a" to "b" of a regex class [a-b], over the digits.
DigitRange(a, b) == {c \in DigitChars : DigitVal(a) <= DigitVal(c) /\ DigitVal(c) <= DigitVal(b)}

\* q.replace(" ", ""): every U+0020 removed, nothing else.
RECURSIVE RemoveSpaces(_)
RemoveSpaces(s) ==
    IF s = <<>> THEN <<>>
    ELSE IF Head(s) = " " THEN RemoveSpaces(Tail(s))
    ELSE <<Head(s)>> \o RemoveSpaces(Tail(s))

\* s.split(c): the fields between the occurrences of c, in order.
RECURSIVE SplitFrom(_, _, _)
SplitFrom(s, c, cur) ==
    IF s = <<>> THEN <<cur>>
    ELSE IF Head(s) = c THEN <<cur>> \o SplitFrom(Tail(s), c, <<>>)
    ELSE SplitFrom(Tail(s), c, Append(cur, Head(s)))

Split(s, c) == SplitFrom(s, c, <<>>)

-----------------------------------------------------------------------------
(* COORD_REGEX, matched as re.match does: the set of positions the pattern *)
(* can have reached after each of its parts (a position p is "before       *)
(* character p").                                                          *)

\* One character of class C.
Lit(s, P, C) == {p + 1 : p \in {x \in P : x <= Len(s) /\ s[x] \in C}}

\* C?
Opt(s, P, C) == P \cup Lit(s, P, C)

\* C{0,n}
RECURSIVE UpTo(_, _, _, _)
UpTo(s, P, C, n) == IF n = 0 THEN P ELSE P \cup UpTo(s, Lit(s, P, C), C, n - 1)

\* C*
Star(s, P, C) == UpTo(s, P, C, Len(s))

\* \d{1,15}
FracMax == 15
Frac(s, P) == UpTo(s, Lit(s, P, DigitChars), DigitChars, FracMax - 1)

\* ([1-8]?[0-9]|[1-9]0)
LatInt(s, P) ==
    Lit(s, Opt(s, P, DigitRange("1", "8")), DigitChars)
        \cup Lit(s, Lit(s, P, DigitRange("1", "9")), {"0"})

\* ([1]?[0-7]?[0-9]|[1]?[1-8]?[0])
LonInt(s, P) ==
    Lit(s, Opt(s, Opt(s, P, {"1"}), DigitRange("0", "7")), DigitChars)
        \cup Lit(s, Opt(s, Opt(s, P, {"1"}), DigitRange("1", "8")), {"0"})

\* ^-?LAT\.\d{1,15}\s*,\s*-?LON\.\d{1,15}
CoordEnds(s) ==
    LET a == Frac(s, Lit(s, LatInt(s, Opt(s, {1}, {"-"})), {"."}))
        b == Star(s, Lit(s, Star(s, a, SpaceChars), {","}), SpaceChars)
    IN  Frac(s, Lit(s, LonInt(s, Opt(s, b, {"-"})), {"."}))

\* $ matches at the end of the string and before a final newline.
COORD_REGEX(s) ==
    \E e \in CoordEnds(s) :
        \/ e = Len(s) + 1
        \/ e = Len(s) /\ s[Len(s)] = "\n"

-----------------------------------------------------------------------------
(* float(): of a str, Python's decimal literal without exponent; of a      *)
(* number, the number; of None, TypeError.                                 *)

RECURSIVE StripLeft(_)
StripLeft(s) ==
    IF s # <<>> /\ Head(s) \in SpaceChars THEN StripLeft(Tail(s)) ELSE s

RECURSIVE StripRight(_)
StripRight(s) ==
    IF s # <<>> /\ s[Len(s)] \in SpaceChars
    THEN StripRight(SubSeq(s, 1, Len(s) - 1)) ELSE s

Strip(s) == StripRight(StripLeft(s))

RECURSIVE DigitsValue(_)
DigitsValue(s) ==
    IF s = <<>> THEN 0 ELSE 10 * DigitsValue(SubSeq(s, 1, Len(s) - 1)) + DigitVal(s[Len(s)])

RECURSIVE DropTrailingZeros(_)
DropTrailingZeros(s) ==
    IF s # <<>> /\ s[Len(s)] = "0"
    THEN DropTrailingZeros(SubSeq(s, 1, Len(s) - 1)) ELSE s

AllDigits(s) == \A i \in 1..Len(s) : s[i] \in DigitChars

ValueError == [exc |-> "ValueError"]
TypeError == [exc |-> "TypeError"]
KeyError == [exc |-> "KeyError"]
Ok(val) == [exc |-> "none", val |-> val]

\* The float with integer part i and fraction digits f; -0.0 = 0.0.
MkFloat(neg, i, f) == [neg |-> neg /\ ~(i = 0 /\ f = <<>>), int |-> i, frac |-> f]

\* The literal "ip.fp", or "ip" alone: at least one digit, and digits only.
FloatOfDigits(neg, ip, fp) ==
    IF AllDigits(ip) /\ AllDigits(fp) /\ Len(ip) + Len(fp) > 0
    THEN Ok(MkFloat(neg, DigitsValue(ip), DropTrailingZeros(fp)))
    ELSE ValueError

\* parts: the literal without its sign, split at its points.
FloatOfFields(neg, parts) ==
    IF Len(parts) > 2 THEN ValueError
    ELSE FloatOfDigits(neg, parts[1], IF Len(parts) = 2 THEN parts[2] ELSE <<>>)

Signed(t) == t # <<>> /\ Head(t) \in {"-", "+"}

FloatOfStripped(t) ==
    FloatOfFields(Signed(t) /\ Head(t) = "-", Split(IF Signed(t) THEN Tail(t) ELSE t, "."))

\* float(str): the surrounding whitespace is ignored.
FloatOfStr(str) == FloatOfStripped(Strip(str))

DigitChar(n) ==
    CASE n = 0 -> "0" [] n = 1 -> "1" [] n = 2 -> "2" [] n = 3 -> "3"
      [] n = 4 -> "4" [] n = 5 -> "5" [] n = 6 -> "6" [] n = 7 -> "7"
      [] n = 8 -> "8" [] n = 9 -> "9"

RECURSIVE IntChars(_)
IntChars(n) == IF n < 10 THEN <<DigitChar(n)>> ELSE IntChars(n \div 10) \o <<DigitChar(n % 10)>>

RECURSIVE Zeros(_)
Zeros(n) == IF n <= 0 THEN <<>> ELSE <<"0">> \o Zeros(n - 1)

\* format(x, ".6f") of a float with at most six fractional digits.
Fixed6(x) ==
    (IF x.neg THEN <<"-">> ELSE <<>>) \o IntChars(x.int) \o <<".">>
        \o x.frac \o Zeros(6 - Len(x.frac))

\* float(v) of a JSON value or a Python float.
Float(v) ==
    CASE v.t = "str" -> FloatOfStr(v.s)
      [] v.t = "float" -> Ok(v.v)
      [] OTHER -> TypeError

-----------------------------------------------------------------------------
(* Exception classes: core.py's own, and the httpx and builtin classes its *)
(* except clauses name or meet.                                            *)

Parent(cls) ==
    CASE cls = "InvalidCoordinatesError" -> "GeotaggingError"
      [] cls = "GeocodingServiceError" -> "GeotaggingError"
      [] cls = "NoResultsFoundError" -> "GeotaggingError"
      [] cls = "GeotaggingError" -> "Exception"
      [] cls = "ConnectError" -> "TransportError"
      [] cls = "ReadTimeout" -> "TransportError"
      [] cls = "TransportError" -> "RequestError"
      [] cls = "RequestError" -> "HTTPError"
      [] cls = "HTTPStatusError" -> "HTTPError"
      [] cls = "HTTPError" -> "Exception"
      [] cls = "ValueError" -> "Exception"
      [] cls = "TypeError" -> "Exception"
      [] cls = "KeyError" -> "LookupError"
      [] cls = "IndexError" -> "LookupError"
      [] cls = "LookupError" -> "Exception"
      [] OTHER -> "BaseException"

RECURSIVE IsInstance(_, _)
IsInstance(cls, target) ==
    \/ cls = target
    \/ cls # "BaseException" /\ IsInstance(Parent(cls), target)

\* except (A, B, ...): whether the clause catches an exception of class cls.
Catches(classes, cls) == \E c \in classes : IsInstance(cls, c)

Raise(cls, msg) == [kind |-> "raise", cls |-> cls, msg |-> msg]
Return(value) == [kind |-> "return", value |-> value]
None == [kind |-> "none"]

MsgInvalid == <<"Invalid coordinate format. Use 'latitude,longitude'.">>
MsgConnecting == "Error connecting to geocoding service: "
MsgNoResults == <<"No results found for the given query.">>
MsgMalformed == <<"Geocoding service returned malformed data.">>
MsgUnexpected == "An unexpected error occurred: "

-----------------------------------------------------------------------------
(* The library calls of the indexing step.                                 *)

\* h3.latlng_to_cell: a function of (lat, lng, res) and of nothing else.
H3Cell(lat, lon, res) == <<"cell", lat, lon, res>>

\* GeoTagResult(address=, latitude=, longitude=, geotag=)
GeoTagResult(address, latitude, longitude, geotag) ==
    [address |-> address, latitude |-> latitude, longitude |-> longitude, geotag |-> geotag]

\* loc.get('display_name', 'N/A')
DisplayName(loc) == IF "display_name" \in DOMAIN loc THEN loc["display_name"].s ELSE <<"N", "/", "A">>

\* loc['lat'], loc['lon']: KeyError when the key is absent.
Item(loc, key) == IF key \in DOMAIN loc THEN Float(loc[key]) ELSE KeyError

\* The body of the try of the loop, lat and lon being float(loc['lat']) and
\* float(loc['lon']) or the exception each raised.
CandidateOf(loc, res, lat, lon) ==
    IF lat.exc # "none" THEN lat
    ELSE IF lon.exc # "none" THEN lon
    ELSE Ok(GeoTagResult(DisplayName(loc), lat.val, lon.val, H3Cell(lat.val, lon.val, res)))

Candidate(loc, res) == CandidateOf(loc, res, Item(loc, "lat"), Item(loc, "lon"))

\* except (ValueError, KeyError): continue; anything else leaves the loop.
RECURSIVE IndexLoop(_, _, _)
IndexStep(r, rest, res, acc) ==
    IF r.exc = "none" THEN IndexLoop(rest, res, Append(acc, r.val))
    ELSE IF Catches({"ValueError", "KeyError"}, r.exc) THEN IndexLoop(rest, res, acc)
    ELSE r

\* for loc in locations: try ... except ...
IndexLoop(locs, res, acc) ==
    IF locs = <<>> THEN Ok(acc)
    ELSE IndexStep(Candidate(Head(locs), res), Tail(locs), res, acc)

-----------------------------------------------------------------------------
(* Inputs: the queries, the resolutions, and what the geocoding service    *)
(* can answer.                                                             *)

\* '37.422, -122.084': the spec's example, a space after the comma.
QExample == <<"3", "7", ".", "4", "2", "2", ",", " ", "-", "1", "2", "2", ".", "0", "8", "4">>

\* '-90.0,-180.0': both numbers at the lower end of their range.
QCorner == <<"-", "9", "0", ".", "0", ",", "-", "1", "8", "0", ".", "0">>

\* '0.5 ,80.0': longitude 80, a space before the comma.
QEighty == <<"0", ".", "5", " ", ",", "8", "0", ".", "0">>

\* '1.0,2.000000000000000': fifteen fractional digits.
QFifteen == <<"1", ".", "0", ",", "2", ".", "0", "0", "0", "0", "0", "0", "0", "0", "0", "0", "0", "0", "0", "0", "0">>

\* '10.0,85.0': a longitude between 81 and 99.
QLon85 == <<"1", "0", ".", "0", ",", "8", "5", ".", "0">>

\* '90.5,0.0': latitude above 90 by its fraction.
QLat905 == <<"9", "0", ".", "5", ",", "0", ".", "0">>

\* '10.0,180.5': longitude above 180 by its fraction.
QLon1805 == <<"1", "0", ".", "0", ",", "1", "8", "0", ".", "5">>

\* '91.0,0.0': latitude out of range.
QLat91 == <<"9", "1", ".", "0", ",", "0", ".", "0">>

\* '12.3,': longitude missing.
QNoLon == <<"1", "2", ".", "3", ",">>

\* '1 2.5,3.0': a space inside the latitude.
QInnerSpace == <<"1", " ", "2", ".", "5", ",", "3", ".", "0">>

\* 'Paris': a free-text address.
QParis == <<"P", "a", "r", "i", "s">>

CoordinateQueries == {QExample, QCorner, QEighty, QFifteen, QLat905, QLon1805, QInnerSpace}
AddressQueries == {QLon85, QLat91, QNoLon, QParis}
Queries == CoordinateQueries \cup AddressQueries

\* resolution: int = Query(12, ge=0, le=15)
MinResolution == 0
DefaultResolution == 12
MaxResolution == 15
Resolutions == {MinResolution, DefaultResolution, MaxResolution}

Str(s) == [t |-> "str", s |-> s]
Null == [t |-> "null"]

\* Candidate records of the service's JSON array.
CandParis == [lat |-> Str(<<"4", "8", ".", "8", "5">>), lon |-> Str(<<"2", ".", "3", "5">>), display_name |-> Str(<<"P", "a", "r", "i", "s">>)]
CandNoName == [lat |-> Str(<<"4", "0", ".", "7">>), lon |-> Str(<<"-", "7", "4", ".", "0">>)]
CandBadLat == [lat |-> Str(<<"a", "b", "c">>), lon |-> Str(<<"2", ".", "3", "5">>), display_name |-> Str(<<"P", "a", "r", "i", "s">>)]
CandNoLon == [lat |-> Str(<<"4", "8", ".", "8", "5">>), display_name |-> Str(<<"P", "a", "r", "i", "s">>)]
CandNullLat == [lat |-> Null, lon |-> Str(<<"2", ".", "3", "5">>), display_name |-> Str(<<"P", "a", "r", "i", "s">>)]
CandidatePool == {CandParis, CandNoName, CandBadLat, CandNoLon, CandNullLat}

MaxCandidates == 3
MaxCalls == 2

RECURSIVE ListsUpTo(_, _)
ListsUpTo(S, n) ==
    IF n = 0 THEN {<<>>}
    ELSE LET shorter == ListsUpTo(S, n - 1)
         IN  shorter \cup {Append(l, x) : l \in shorter, x \in S}

\* What client.get can do: answer with a status and a JSON body, or fail in
\* transport with an httpx exception whose str() is text.
Http(status, body) == [kind |-> "http", status |-> status, body |-> body]
Transport(cls, text) == [kind |-> "transport", cls |-> cls, text |-> text]

ServiceAnswers ==
    {Http(200, l) : l \in ListsUpTo(CandidatePool, MaxCandidates)}
        \cup {Http(500, <<>>), Http(429, <<>>)}
        \cup {Transport("ConnectError", "All connection attempts failed"),
              Transport("ReadTimeout", "The read operation timed out")}

-----------------------------------------------------------------------------
(* fetch_geotags, part by part.                                            *)

\* Lines 51-55: the candidate of the coordinate branch.
CoordinateLocation(lat, lon) ==
    [lat |-> [t |-> "float", v |-> lat],
     lon |-> [t |-> "float", v |-> lon],
     display_name |-> Str(<<"C", "o", "o", "r", "d", "i", "n", "a", "t", "e", "s", ":", " ">>
                             \o Fixed6(lat) \o <<",", " ">> \o Fixed6(lon))]

\* Line 50: float(lat_str), then float(lon_str).
ParsePair(lat, lon) ==
    IF lat.exc # "none" THEN lat
    ELSE IF lon.exc # "none" THEN lon
    ELSE Ok(CoordinateLocation(lat.val, lon.val))

\* Lines 49-55: the try; unpacking other than two fields is a ValueError.
ParseFields(parts) ==
    IF Len(parts) # 2 THEN ValueError
    ELSE ParsePair(FloatOfStr(parts[1]), FloatOfStr(parts[2]))

\* Lines 56-57: except (ValueError, IndexError).
ParseHandler(tried) ==
    IF tried.exc = "none" THEN Return(<<tried.val>>)
    ELSE IF Catches({"ValueError", "IndexError"}, tried.exc)
    THEN Raise("InvalidCoordinatesError", MsgInvalid)
    ELSE Raise(tried.exc, <<>>)

\* Lines 48-57: the coordinate branch.
ParseCoordinates(query) == ParseHandler(ParseFields(Split(query, ",")))

\* response.raise_for_status() passes the 2xx statuses.
IsSuccess(status) == 200 <= status /\ status <= 299

\* Lines 64-66: the try, once client.get has answered or failed.
Attempt(answer) ==
    IF answer.kind = "transport" THEN [exc |-> answer.cls, text |-> answer.text]
    ELSE IF ~IsSuccess(answer.status)
    THEN [exc |-> "HTTPStatusError", text |-> "Error response for url"]
    ELSE Ok(answer.body)

\* As GeocodeHandler, had line 67 read "except httpx.ConnectError".
GeocodeHandlerConnectOnly(tried) ==
    IF tried.exc = "none" THEN Return(tried.val)
    ELSE IF Catches({"ConnectError"}, tried.exc)
    THEN Raise("GeocodingServiceError", <<MsgConnecting, tried.text>>)
    ELSE Raise(tried.exc, <<tried.text>>)

\* Lines 67-68: except httpx.RequestError.
GeocodeHandler(tried) ==
    IF tried.exc = "none" THEN Return(tried.val)
    ELSE IF Catches({"RequestError"}, tried.exc)
    THEN Raise("GeocodingServiceError", <<MsgConnecting, tried.text>>)
    ELSE Raise(tried.exc, <<tried.text>>)

\* Lines 62-68: the address branch.
Geocode(answer) == GeocodeHandler(Attempt(answer))

\* An exception the loop does not catch leaves fetch_geotags.
IndexResult(r) ==
    IF r.exc = "none" THEN Return(r.val)
    ELSE Raise(r.exc, <<"float() argument must be a string or a real number">>)

\* Lines 73-89: the loop over the candidates.
Index(locs, res) == IndexResult(IndexLoop(locs, res, <<>>))

\* As Finish, without the check of line 91.
FinishUnchecked(res) == Return(res)

\* Lines 91-94.
Finish(res) == IF res = <<>> THEN Raise("NoResultsFoundError", MsgMalformed) ELSE Return(res)

\* Lines 91-94 after the loop.
AfterIndex(r) == IF r.kind = "raise" THEN r ELSE Finish(r.value)

\* Lines 70-94 after the branch.
AfterBranch(got, res) ==
    IF got.kind = "raise" THEN got
    ELSE IF got.value = <<>> THEN Raise("NoResultsFoundError", MsgNoResults)
    ELSE AfterIndex(Index(got.value, res))

\* fetch_geotags run alone on (query, res), the service answering `answer`.
Resolve(query, res, answer) ==
    AfterBranch(IF COORD_REGEX(RemoveSpaces(query)) THEN ParseCoordinates(query)
                ELSE Geocode(answer), res)

-----------------------------------------------------------------------------
(* get_geotag: the except clauses of the endpoint, in their order.         *)

\* As ExceptClauses, with the catch-all clause written first.
ExceptClausesCatchAllFirst ==
    << [cls |-> "Exception", status |-> 500, prefix |-> <<MsgUnexpected>>],
       [cls |-> "InvalidCoordinatesError", status |-> 400, prefix |-> <<>>],
       [cls |-> "NoResultsFoundError", status |-> 404, prefix |-> <<>>],
       [cls |-> "GeocodingServiceError", status |-> 503, prefix |-> <<>>] >>

ExceptClauses ==
    << [cls |-> "InvalidCoordinatesError", status |-> 400, prefix |-> <<>>],
       [cls |-> "NoResultsFoundError", status |-> 404, prefix |-> <<>>],
       [cls |-> "GeocodingServiceError", status |-> 503, prefix |-> <<>>],
       [cls |-> "Exception", status |-> 500, prefix |-> <<MsgUnexpected>>] >>

\* The first clause that catches e answers with its status and str(e).
RECURSIVE Handle(_, _)
Handle(clauses, e) ==
    IF clauses = <<>> THEN [status |-> 0, detail |-> e.msg]
    ELSE IF IsInstance(e.cls, Head(clauses).cls)
    THEN [status |-> Head(clauses).status, detail |-> Head(clauses).prefix \o e.msg]
    ELSE Handle(Tail(clauses), e)

\* GeoTagResponse(query=, resolution=, result=), status "success" by default.
GeoTagResponse(query, res, result) ==
    [status |-> "success", query |-> query, resolution |-> res, result |-> result]

\* Lines 30-44 of main.py, given what fetch_geotags did.
get_geotag(query, res, out) ==
    IF out.kind = "return"
    THEN [status |-> 200, body |-> GeoTagResponse(query, res, out.value)]
    ELSE Handle(ExceptClauses, out)

-----------------------------------------------------------------------------
(* The state machine.  An invocation is one request to /geotag; its locals *)
(* live in its own frame.                                                  *)

Invocations == {1, 2}

\* As Frame, were locations and results module-level lists.
SharedFrame(p) == 1

\* The frame that holds the locals of invocation p: each call has its own.
Frame(p) == p

Init ==
    /\ pc = [p \in Invocations |-> "idle"]
    /\ q = [p \in Invocations |-> <<>>]
    /\ resolution = [p \in Invocations |-> DefaultResolution]
    /\ locations = [p \in Invocations |-> <<>>]
    /\ results = [p \in Invocations |-> <<>>]
    /\ outcome = [p \in Invocations |-> None]
    /\ response = [p \in Invocations |-> None]
    /\ reply = [p \in Invocations |-> None]
    /\ trace = [p \in Invocations |-> <<>>]
    /\ sent = [p \in Invocations |-> 0]
    /\ nRequests = 0
    /\ nAddress = 0
    /\ nCalls = 0
    /\ repeated = [p \in Invocations |-> FALSE]
    /\ overlapped = [p \in Invocations |-> FALSE]

\* The step taken is appended to the invocation's trace.
Step(p, name, next) ==
    /\ pc' = [pc EXCEPT ![p] = next]
    /\ trace' = [trace EXCEPT ![p] = Append(@, name)]

\* fetch_geotags ends by raising or returning `out`.
End(p, out) ==
    /\ outcome' = [outcome EXCEPT ![p] = out]
    /\ Step(p, IF out.kind = "raise" THEN "raise" ELSE "return", "ended")

\* A step that yields the candidates: r raised, or base \o r.value is the list.
Locate(p, r, name, base) ==
    IF r.kind = "raise"
    THEN /\ End(p, r)
         /\ UNCHANGED locations
    ELSE /\ locations' = [locations EXCEPT ![Frame(p)] = base \o r.value]
         /\ Step(p, name, "check")
         /\ UNCHANGED outcome

\* The loop ends: r raised, or r.value are the results.
Collect(p, r) ==
    IF r.kind = "raise"
    THEN /\ End(p, r)
         /\ UNCHANGED results
    ELSE /\ results' = [results EXCEPT ![Frame(p)] = @ \o r.value]
         /\ Step(p, "index", "finish")
         /\ UNCHANGED outcome

\* A request arrives: get_geotag(q, resolution) calls fetch_geotags (line 45).
Call(p, qs, rs) ==
    /\ pc[p] \in {"idle", "replied"}
    /\ nCalls < MaxCalls
    /\ \E query \in qs, res \in rs :
        /\ q' = [q EXCEPT ![p] = query]
        /\ resolution' = [resolution EXCEPT ![p] = res]
        /\ repeated' = [repeated EXCEPT ![p] = (pc[p] = "replied" /\ q[p] = query)]
    /\ locations' = [locations EXCEPT ![Frame(p)] = <<>>]
    /\ results' = [results EXCEPT ![Frame(p)] = <<>>]
    /\ outcome' = [outcome EXCEPT ![p] = None]
    /\ response' = [response EXCEPT ![p] = None]
    /\ reply' = [reply EXCEPT ![p] = None]
    /\ sent' = [sent EXCEPT ![p] = 0]
    /\ nCalls' = nCalls + 1
    /\ pc' = [pc EXCEPT ![p] = "validate"]
    /\ trace' = [trace EXCEPT ![p] = <<>>]
    /\ overlapped' = [overlapped EXCEPT ![p] = FALSE]
    /\ UNCHANGED <<nRequests, nAddress>>

\* Line 47: the branch.
Validate(p) ==
    /\ pc[p] = "validate"
    /\ IF COORD_REGEX(RemoveSpaces(q[p]))
       THEN /\ Step(p, "validate", "parse")
            /\ UNCHANGED nAddress
       ELSE /\ Step(p, "validate", "request")
            /\ nAddress' = nAddress + 1
    /\ UNCHANGED <<q, resolution, locations, results, outcome, response, reply,
                   sent, nRequests, nCalls, repeated, overlapped>>

\* Lines 48-57.
Parse(p) ==
    /\ pc[p] = "parse"
    /\ Locate(p, ParseCoordinates(q[p]), "parse", locations[Frame(p)])
    /\ UNCHANGED <<q, resolution, results, response, reply, sent,
                   nRequests, nCalls, repeated, nAddress, overlapped>>

\* As Request, with a cache: a repeated query is not sent again.
RequestCached(p) ==
    /\ pc[p] = "request"
    /\ sent' = [sent EXCEPT ![p] = IF repeated[p] THEN @ ELSE @ + 1]
    /\ nRequests' = IF repeated[p] THEN nRequests ELSE nRequests + 1
    /\ Step(p, "geocode", "await")
    /\ UNCHANGED <<q, resolution, locations, results, outcome, response, reply,
                   nCalls, repeated, nAddress, overlapped>>

\* Lines 59-64: the one client.get, up to its await.
Request(p) ==
    /\ pc[p] = "request"
    /\ sent' = [sent EXCEPT ![p] = @ + 1]
    /\ nRequests' = nRequests + 1
    /\ Step(p, "geocode", "await")
    /\ UNCHANGED <<q, resolution, locations, results, outcome, response, reply,
                   nCalls, repeated, nAddress, overlapped>>

\* Lines 64-68: the await ends, with an answer or a transport failure.
Respond(p, answers) ==
    /\ pc[p] = "await"
    /\ \E answer \in answers :
        /\ response' = [response EXCEPT ![p] = answer]
        /\ Locate(p, Geocode(answer), "answer", <<>>)
    /\ overlapped' = [overlapped EXCEPT ![p] = \E o \in Invocations \ {p} : pc[o] = "await"]
    /\ UNCHANGED <<q, resolution, results, reply, sent, nRequests, nAddress, nCalls, repeated>>

\* Lines 70-73.
Check(p) ==
    /\ pc[p] = "check"
    /\ IF locations[Frame(p)] = <<>>
       THEN /\ End(p, Raise("NoResultsFoundError", MsgNoResults))
            /\ UNCHANGED results
       ELSE /\ results' = [results EXCEPT ![Frame(p)] = <<>>]
            /\ Step(p, "check", "index")
            /\ UNCHANGED outcome
    /\ UNCHANGED <<q, resolution, locations, response, reply, sent,
                   nRequests, nCalls, repeated, nAddress, overlapped>>

\* Lines 74-89.
IndexAll(p) ==
    /\ pc[p] = "index"
    /\ Collect(p, Index(locations[Frame(p)], resolution[p]))
    /\ UNCHANGED <<q, resolution, locations, response, reply, sent,
                   nRequests, nCalls, repeated, nAddress, overlapped>>

\* Lines 91-94.
FinishUp(p) ==
    /\ pc[p] = "finish"
    /\ End(p, Finish(results[Frame(p)]))
    /\ UNCHANGED <<q, resolution, locations, results, response, reply, sent,
                   nRequests, nCalls, repeated, nAddress, overlapped>>

\* main.py lines 30-44: the endpoint answers.
Reply(p) ==
    /\ pc[p] = "ended"
    /\ reply' = [reply EXCEPT ![p] = get_geotag(q[p], resolution[p], outcome[p])]
    /\ Step(p, "reply", "replied")
    /\ UNCHANGED <<q, resolution, locations, results, outcome, response, sent,
                   nRequests, nCalls, repeated, nAddress, overlapped>>

\* One server task at a time: the calls follow one another.
Next ==
    \/ Call(1, Queries, Resolutions)
    \/ Validate(1)
    \/ Parse(1)
    \/ Request(1)
    \/ Respond(1, ServiceAnswers)
    \/ Check(1)
    \/ IndexAll(1)
    \/ FinishUp(1)
    \/ Reply(1)

Spec == Init /\ [][Next]_vars

\* Two server tasks: the event loop switches between them at any step.
ConcQueries == {QExample, QParis, QNoLon}
ConcResolutions == {MinResolution, MaxResolution}
ConcAnswers ==
    {Http(200, <<>>), Http(200, <<CandParis>>), Http(200, <<CandBadLat, CandNoName>>),
     Http(200, <<CandNullLat>>), Http(500, <<>>),
     Transport("ConnectError", "All connection attempts failed")}

NextConc ==
    \E p \in Invocations :
        \/ Call(p, ConcQueries, ConcResolutions)
        \/ Validate(p)
        \/ Parse(p)
        \/ Request(p)
        \/ Respond(p, ConcAnswers)
        \/ Check(p)
        \/ IndexAll(p)
        \/ FinishUp(p)
        \/ Reply(p)

SpecConc == Init /\ [][NextConc]_vars

-----------------------------------------------------------------------------
(* What the claims speak of.                                               *)

\* fetch_geotags has returned or raised.
Ended(p) == pc[p] \in {"ended", "replied"}

Returned(p) == Ended(p) /\ outcome[p].kind = "return"

RaisedClass(p, cls) == Ended(p) /\ outcome[p].kind = "raise" /\ outcome[p].cls = cls

\* |x| <= limit, for a limit that is a whole number of degrees.
InRange(x, limit) == x.int < limit \/ (x.int = limit /\ x.frac = <<>>)

\* A decimal number: an optional minus, digits, a point, `lo` to `hi` digits.
IsDecimalText(s, lo, hi) ==
    LET body == IF s # <<>> /\ Head(s) = "-" THEN Tail(s) ELSE s
        parts == Split(body, ".")
    IN  /\ Len(parts) = 2
        /\ parts[1] # <<>> /\ AllDigits(parts[1])
        /\ lo <= Len(parts[2]) /\ Len(parts[2]) <= hi /\ AllDigits(parts[2])

\* "lat,lon" with optional spaces around the comma.
IsPairText(query) ==
    LET parts == Split(query, ",")
    IN  /\ Len(parts) = 2
        /\ IsDecimalText(Strip(parts[1]), 1, FracMax)
        /\ IsDecimalText(Strip(parts[2]), 1, FracMax)

LatOf(query) == FloatOfStr(Split(query, ",")[1]).val
LonOf(query) == FloatOfStr(Split(query, ",")[2]).val

\* A coordinate query within the geographic ranges.
IsValidPair(query) ==
    IsPairText(query) /\ InRange(LatOf(query), 90) /\ InRange(LonOf(query), 180)

\* Coordinate-shaped but malformed: the latitude out of range, or a field missing.
IsMalformedPair(query) ==
    LET parts == Split(query, ",")
    IN  /\ Len(parts) = 2
        /\ \/ IsPairText(query) /\ ~InRange(LatOf(query), 90)
           \/ Strip(parts[1]) = <<>> /\ IsDecimalText(Strip(parts[2]), 1, FracMax)
           \/ Strip(parts[2]) = <<>> /\ IsDecimalText(Strip(parts[1]), 1, FracMax)

\* A candidate with both fields present and numeric.
IsNumeric(v) == v.t = "float" \/ (v.t = "str" /\ FloatOfStr(v.s).exc = "none")
WellFormed(loc) ==
    /\ "lat" \in DOMAIN loc /\ IsNumeric(loc["lat"])
    /\ "lon" \in DOMAIN loc /\ IsNumeric(loc["lon"])

\* The service answered 2xx with the JSON array `body`.
Answered(p) == Ended(p) /\ response[p].kind = "http" /\ IsSuccess(response[p].status)

IsPrefix(a, b) == Len(a) <= Len(b) /\ SubSeq(b, 1, Len(a)) = a
IsMainStep(name) == name \in {"validate", "parse", "geocode", "index", "return"}
Count(s, name) == Cardinality({i \in 1..Len(s) : s[i] = name})

\* The branch of p has yielded its list of candidates (line 70 is reached).
Located(p) == Count(trace[p], "parse") + Count(trace[p], "answer") = 1

-----------------------------------------------------------------------------
(* The claims.                                                             *)

\* C1: a coordinate query within range is never sent to the geocoding
\* service, and ends with exactly one result: its latitude and longitude are
\* the parsed numbers and its geotag is the cell of (latitude, longitude,
\* resolution).
C1_ValidPairResolvedLocally ==
    \A p \in Invocations :
        pc[p] # "idle" /\ IsValidPair(q[p]) =>
            /\ sent[p] = 0
            /\ Ended(p) =>
                /\ outcome[p].kind = "return"
                /\ Len(outcome[p].value) = 1
                /\ outcome[p].value[1].latitude = LatOf(q[p])
                /\ outcome[p].value[1].longitude = LonOf(q[p])
                /\ outcome[p].value[1].geotag = H3Cell(LatOf(q[p]), LonOf(q[p]), resolution[p])

\* C2: a malformed coordinate-shaped query raises InvalidCoordinatesError and
\* is never sent to the geocoding service.
C2_MalformedPairRejected ==
    \A p \in Invocations :
        pc[p] # "idle" /\ IsMalformedPair(q[p]) =>
            /\ sent[p] = 0
            /\ Ended(p) => RaisedClass(p, "InvalidCoordinatesError")

\* C3: a non-2xx status from the geocoding service ends fetch_geotags with
\* GeocodingServiceError, and /geotag replies 503.
C3_BadStatusIsServiceError ==
    \A p \in Invocations :
        Ended(p) /\ response[p].kind = "http" /\ ~IsSuccess(response[p].status) =>
            /\ RaisedClass(p, "GeocodingServiceError")
            /\ pc[p] = "replied" => reply[p].status = 503

\* C4: a timeout or connection failure of the request ends fetch_geotags
\* with GeocodingServiceError, whose message contains the description of the
\* transport error; the call never reaches the indexing step and returns
\* nothing.
C4_TransportFailureIsServiceError ==
    \A p \in Invocations :
        response[p].kind = "transport" =>
            /\ RaisedClass(p, "GeocodingServiceError")
            /\ \E i \in 1..Len(outcome[p].msg) : outcome[p].msg[i] = response[p].text
            /\ Count(trace[p], "index") = 0
            /\ results[Frame(p)] = <<>>

C4_Witness ==
    \E p \in Invocations :
        /\ pc[p] = "replied"
        /\ response[p].kind = "transport" /\ response[p].cls = "ReadTimeout"
        /\ reply[p].status = 503

\* C5: of a non-empty answer with at least one well-formed candidate,
\* fetch_geotags returns one result per well-formed candidate, in the order of
\* the answer, and nothing for the others; a malformed candidate never ends
\* the call.
C5_MalformedCandidatesSkipped ==
    \A p \in Invocations :
        Answered(p) /\ SelectSeq(response[p].body, WellFormed) # <<>> =>
            LET good == SelectSeq(response[p].body, WellFormed)
            IN  /\ outcome[p].kind = "return"
                /\ Len(outcome[p].value) = Len(good)
                /\ \A i \in 1..Len(good) :
                       outcome[p].value[i] = Candidate(good[i], resolution[p]).val

\* C6: fetch_geotags never returns an empty list.  With no candidate it
\* raises NoResultsFoundError "No results found ..."; with every candidate
\* skipped it raises NoResultsFoundError "... malformed data", another
\* message; a list it returns has at least one element; /geotag replies 404
\* to both.
C6_NeverEmpty ==
    /\ MsgNoResults # MsgMalformed
    /\ \A p \in Invocations :
        /\ Returned(p) => Len(outcome[p].value) >= 1
        /\ Ended(p) /\ Located(p) /\ locations[Frame(p)] = <<>> =>
               outcome[p] = Raise("NoResultsFoundError", MsgNoResults)
        /\ Ended(p) /\ Count(trace[p], "index") = 1 /\ results[Frame(p)] = <<>> =>
               outcome[p] = Raise("NoResultsFoundError", MsgMalformed)
        /\ Ended(p) /\ Count(trace[p], "index") = 1 /\ results[Frame(p)] # <<>> =>
               outcome[p] = Return(results[Frame(p)])
        /\ pc[p] = "replied" /\ RaisedClass(p, "NoResultsFoundError") =>
               reply[p].status = 404

C6_Witness ==
    \E p \in Invocations :
        /\ pc[p] = "replied"
        /\ Answered(p) /\ Len(response[p].body) = MaxCandidates
        /\ reply[p] = [status |-> 404, detail |-> MsgMalformed]

\* C7: every result fetch_geotags returns has its latitude in [-90, 90] and
\* its longitude in [-180, 180]; in particular a pair the coordinate branch
\* has parsed lies within these ranges.
C7_ResultsInRange ==
    \A p \in Invocations :
        /\ Count(trace[p], "parse") = 1 =>
               InRange(LatOf(q[p]), 90) /\ InRange(LonOf(q[p]), 180)
        /\ Returned(p) =>
               \A i \in 1..Len(outcome[p].value) :
                   /\ InRange(outcome[p].value[i].latitude, 90)
                   /\ InRange(outcome[p].value[i].longitude, 180)

\* C8: /geotag answers each outcome of fetch_geotags with one reply: the
\* success envelope, or 400 for InvalidCoordinatesError, 404 for
\* NoResultsFoundError, 503 for GeocodingServiceError and 500 for any other
\* exception, the detail carrying the exception's message.
C8_ReplyOfOutcome ==
    \A p \in Invocations :
        pc[p] = "replied" =>
            IF outcome[p].kind = "return"
            THEN reply[p] = [status |-> 200,
                             body |-> [status |-> "success", query |-> q[p],
                                       resolution |-> resolution[p],
                                       result |-> outcome[p].value]]
            ELSE /\ reply[p].status =
                        CASE outcome[p].cls = "InvalidCoordinatesError" -> 400
                          [] outcome[p].cls = "NoResultsFoundError" -> 404
                          [] outcome[p].cls = "GeocodingServiceError" -> 503
                          [] OTHER -> 500
                 /\ \E pre \in {<<>>, <<MsgUnexpected>>} :
                        reply[p].detail = pre \o outcome[p].msg

C8_Witness ==
    \E p \in Invocations :
        /\ pc[p] = "replied"
        /\ outcome[p] = Raise("InvalidCoordinatesError", MsgInvalid)
        /\ reply[p] = [status |-> 400, detail |-> MsgInvalid]

\* C9: a call of the address branch issues exactly one request and a call of
\* the coordinate branch none, a repeated query included; no request is
\* issued again after a failure; the steps of a call come in the order
\* validate, geocode or parse, index, return.
C9_OneRequestInOrder ==
    /\ nRequests = nAddress - Cardinality({p \in Invocations : pc[p] = "request"})
    /\ \A p \in Invocations :
        /\ sent[p] = Count(trace[p], "geocode")
        /\ sent[p] <= 1
        /\ Ended(p) => sent[p] = IF COORD_REGEX(RemoveSpaces(q[p])) THEN 0 ELSE 1
        /\ \E branch \in {"parse", "geocode"} :
               IsPrefix(SelectSeq(trace[p], IsMainStep),
                        <<"validate", branch, "index", "return">>)
        /\ Returned(p) => Len(SelectSeq(trace[p], IsMainStep)) = 4

C9_Witness ==
    \E p \in Invocations :
        /\ pc[p] = "replied"
        /\ repeated[p] /\ ~COORD_REGEX(RemoveSpaces(q[p]))
        /\ Returned(p)
        /\ sent[p] = 1 /\ nRequests = 2

\* C10: with two invocations interleaved, each one's outcome is the outcome
\* of fetch_geotags run alone on its query, its resolution and the answer the
\* service gave it, and its reply is the reply to that outcome.
C10_OutcomeAsAlone ==
    \A p \in Invocations :
        /\ Ended(p) => outcome[p] = Resolve(q[p], resolution[p], response[p])
        /\ pc[p] = "replied" =>
               reply[p] = get_geotag(q[p], resolution[p],
                                     Resolve(q[p], resolution[p], response[p]))

C10_Witness ==
    /\ pc[1] = "replied" /\ pc[2] = "replied"
    /\ overlapped[1] /\ q[1] # q[2]
    /\ outcome[1].kind = "return" /\ outcome[2].kind = "raise"

=============================================================================
